---- MODULE Spec2Model ----
(***************************************************************************)
(* A model of record-mapper (src/main.js): the path reader getValueByPath, *)
(* the path writer setValueByPath, the spec resolver resolveSpec, the      *)
(* transform registry and the mapping interpreter transform/transformOne.  *)
(*                                                                         *)
(* JavaScript objects and arrays are reference values, so the model keeps  *)
(* a heap: a sequence of cells addressed by their position.  A value is a  *)
(* primitive or a reference to a cell; assigning an object to a property   *)
(* stores the reference, exactly as the code does, so that aliasing        *)
(* between the input, the mapping spec and the output records is visible.  *)
(* Strings are sequences of one-character strings, so that split, endsWith,*)
(* slice, startsWith and the segment regular expression are computed.      *)
(***************************************************************************)
EXTENDS Integers, Sequences, FiniteSets, TLC

VARIABLES
    heap,      \* the JavaScript heap: Seq(cell), a reference is an index
    pc,        \* position of the caller / of transform's loops
    target,    \* address of the object handed to setValueByPath
    path,      \* the path string of the current getValueByPath/setValueByPath call
    value,     \* the value argument of the current call
    ret,       \* the value returned by the last getValueByPath/resolveSpec call
    calls,     \* log of the setValueByPath calls made so far on target
    input,     \* transform's input argument
    mapping,   \* address of transform's mapping argument
    items,     \* the records transform iterates over (input.map)
    rec,       \* index of the record being transformed
    entries,   \* Object.entries(mapping) of the running transformOne
    ent,       \* index of the next entry of the running transformOne
    result,    \* address of the running transformOne's result object
    out,       \* values returned by the finished transformOne calls
    run,       \* number of the transform call (1 or 2) on the same arguments
    heap0,     \* the heap when transform was first called
    first      \* the heap and value returned by the first transform call

vars == <<heap, pc, target, path, value, ret, calls, input, mapping, items,
          rec, entries, ent, result, out, run, heap0, first>>

apiVars == <<target, path, value, ret, calls>>
xformVars == <<input, mapping, items, rec, entries, ent, result, out, run, heap0, first>>

---------------------------------------------------------------------------
(* Values *)

Undef == [t |-> "undefined"]
Null == [t |-> "null"]
Bool(b) == [t |-> "boolean", b |-> b]
Num(n) == [t |-> "number", n |-> n]
Str(s) == [t |-> "string", s |-> s]
Ref(a) == [t |-> "ref", a |-> a]
\* a built-in function value, found through Object.prototype
Fn(name) == [t |-> "function", f |-> name]

\* v == null in JavaScript: null or undefined
IsNullish(v) == v.t \in {"null", "undefined"}

\* {} and [ ... ] as heap cells.  keys/vals are the own named properties in
\* insertion order; elems are an array's indexed elements (a hole is Undef).
NewObject == [kind |-> "object", keys |-> <<>>, vals |-> <<>>, elems |-> <<>>]
NewArray(es) == [kind |-> "array", keys |-> <<>>, vals |-> <<>>, elems |-> es]
ObjectOf(ks, vs) == [kind |-> "object", keys |-> ks, vals |-> vs, elems |-> <<>>]

\* Array.isArray(v)
IsArray(h, v) == v.t = "ref" /\ h[v.a].kind = "array"

\* v is a plain (non-array) object
IsPlainObject(h, v) == v.t = "ref" /\ h[v.a].kind = "object"

---------------------------------------------------------------------------
(* Strings *)

Digits == {"0", "1", "2", "3", "4", "5", "6", "7", "8", "9"}

DigitVal(c) ==
    CASE c = "0" -> 0 [] c = "1" -> 1 [] c = "2" -> 2 [] c = "3" -> 3
      [] c = "4" -> 4 [] c = "5" -> 5 [] c = "6" -> 6 [] c = "7" -> 7
      [] c = "8" -> 8 [] c = "9" -> 9

\* Number(idxStr) for a string of decimal digits
RECURSIVE ToNumber(_)
ToNumber(ds) ==
    IF Len(ds) = 0 THEN 0
    ELSE ToNumber(SubSeq(ds, 1, Len(ds) - 1)) * 10 + DigitVal(ds[Len(ds)])

AllDigits(s) == \A i \in 1..Len(s) : s[i] \in Digits

\* a property key that JavaScript treats as an array index ("0", "1", "10", not "00")
IsArrayIndex(k) == Len(k) > 0 /\ AllDigits(k) /\ (Len(k) = 1 \/ k[1] # "0")

StartsWith(s, pre) == Len(s) >= Len(pre) /\ SubSeq(s, 1, Len(pre)) = pre
EndsWith(s, suf) == Len(s) >= Len(suf) /\ SubSeq(s, Len(s) - Len(suf) + 1, Len(s)) = suf

\* s.slice(n) for 0 <= n
SliceFrom(s, n) == SubSeq(s, n + 1, Len(s))

FirstIndexOf(s, c) ==
    IF \E i \in 1..Len(s) : s[i] = c
    THEN CHOOSE i \in 1..Len(s) : s[i] = c /\ \A j \in 1..(i - 1) : s[j] # c
    ELSE 0

\* s.split(".")
RECURSIVE SplitDot(_)
SplitDot(s) ==
    LET i == FirstIndexOf(s, ".")
    IN IF i = 0 THEN <<s>>
       ELSE <<SubSeq(s, 1, i - 1)>> \o SplitDot(SubSeq(s, i + 1, Len(s)))

---------------------------------------------------------------------------
(* Property access *)

\* Members every value inherits from Object.prototype that the model names.
\* "toString" as a sequence of characters, and so on.
ToStringName == <<"t", "o", "S", "t", "r", "i", "n", "g">>
ValueOfName == <<"v", "a", "l", "u", "e", "O", "f">>
ObjectPrototypeFunctions == {ToStringName, ValueOfName}

\* the lookup of key on the prototype chain, after the own properties
ProtoProp(key) == IF key \in ObjectPrototypeFunctions THEN Fn(key) ELSE Undef

KeyIndex(keys, k) ==
    IF \E i \in 1..Len(keys) : keys[i] = k
    THEN CHOOSE i \in 1..Len(keys) : keys[i] = k
    ELSE 0

\* Object.prototype.hasOwnProperty.call(v, key) for a reference v and a named key
HasOwn(h, v, key) == KeyIndex(h[v.a].keys, key) # 0

\* arr[n] for an array reference arr and a number n
ElemAt(h, arr, n) ==
    IF n < Len(h[arr.a].elems) THEN h[arr.a].elems[n + 1] ELSE Undef

\* v[key] for a value v that is neither null nor undefined
GetProp(h, v, key) ==
    IF v.t = "ref"
    THEN LET c == h[v.a]
             i == KeyIndex(c.keys, key)
         IN IF c.kind = "array" /\ IsArrayIndex(key) THEN ElemAt(h, v, ToNumber(key))
            ELSE IF i # 0 THEN c.vals[i]
            ELSE ProtoProp(key)
    ELSE IF v.t = "string" /\ IsArrayIndex(key) /\ ToNumber(key) < Len(v.s)
    THEN Str(<<v.s[ToNumber(key) + 1]>>)
    ELSE ProtoProp(key)

\* elems with elems[n] = val, the array grown with holes when n is past its end
SetElem(es, n, val) ==
    [i \in 1..(IF n + 1 > Len(es) THEN n + 1 ELSE Len(es)) |->
        IF i = n + 1 THEN val ELSE IF i <= Len(es) THEN es[i] ELSE Undef]

\* the heap after  obj[key] = val  for the object or array at address a
SetProp(h, a, key, val) ==
    LET c == h[a]
        i == KeyIndex(c.keys, key)
    IN IF c.kind = "array" /\ IsArrayIndex(key)
       THEN [h EXCEPT ![a].elems = SetElem(c.elems, ToNumber(key), val)]
       ELSE IF i # 0
       THEN [h EXCEPT ![a].vals[i] = val]
       ELSE [h EXCEPT ![a].keys = Append(c.keys, key), ![a].vals = Append(c.vals, val)]

\* the heap after  arr.push(val)
Push(h, a, val) == [h EXCEPT ![a].elems = Append(h[a].elems, val)]

\* the heap with a new cell; the new cell's address is Len(h) + 1
Alloc(h, cell) == Append(h, cell)

---------------------------------------------------------------------------
(* Path Grammar: parseSeg *)

\* /^([^\[]+)(\[(\d*)\])?$/ : the key is the text before the first "[", and is
\* not empty; what follows is nothing, or "[" digits "]" up to the end.
ParseSeg(seg) ==
    LET b == FirstIndexOf(seg, "[")
        key == IF b = 0 THEN seg ELSE SubSeq(seg, 1, b - 1)
        rest == IF b = 0 THEN <<>> ELSE SubSeq(seg, b, Len(seg))
        idxStr == IF Len(rest) >= 2 THEN SubSeq(rest, 2, Len(rest) - 1) ELSE <<>>
        matches == /\ Len(key) > 0
                   /\ \/ Len(rest) = 0
                      \/ /\ Len(rest) >= 2
                         /\ rest[Len(rest)] = "]"
                         /\ AllDigits(idxStr)
    IN IF ~matches THEN [key |-> seg, mode |-> "prop", index |-> 0]
       ELSE IF Len(rest) = 0 THEN [key |-> key, mode |-> "prop", index |-> 0]
       ELSE IF Len(idxStr) = 0 THEN [key |-> key, mode |-> "wildcard", index |-> 0]
       ELSE [key |-> key, mode |-> "index", index |-> ToNumber(idxStr)]

---------------------------------------------------------------------------
(* Path Reader: getValueByPath *)

\* the loop body without the test of line 57: a null element is read like any
\* other and contributes undefined
FlowItemKeepsNull(h, item, p) ==
    IF IsNullish(item) THEN <<Undef>>
    ELSE LET val == GetProp(h, item, p.key)
         IN IF p.mode = "prop" THEN <<val>>
            ELSE IF p.mode = "index"
            THEN IF IsArray(h, val) THEN <<ElemAt(h, val, p.index)>> ELSE <<Undef>>
            ELSE IF IsArray(h, val) THEN h[val.a].elems
            ELSE IF ~IsNullish(val) THEN <<val>>
            ELSE <<>>

\* the values one element of the array flow contributes for one segment
FlowItem(h, item, p) ==
    IF IsNullish(item) THEN <<>>
    ELSE LET val == GetProp(h, item, p.key)
         IN IF p.mode = "prop" THEN <<val>>
            ELSE IF p.mode = "index"
            THEN IF IsArray(h, val) THEN <<ElemAt(h, val, p.index)>> ELSE <<Undef>>
            ELSE IF IsArray(h, val) THEN h[val.a].elems
            ELSE IF ~IsNullish(val) THEN <<val>>
            ELSE <<>>

\* the mapped array of one segment over the current array
RECURSIVE FlowMap(_, _, _)
FlowMap(h, cur, p) ==
    IF Len(cur) = 0 THEN <<>>
    ELSE FlowItem(h, Head(cur), p) \o FlowMap(h, Tail(cur), p)

\* The loop over the segments from segment i on.  st.flow is isArrayFlow;
\* st.val is current in scalar state and st.arr its elements in array flow.
\* st.early marks the early "return undefined".
RECURSIVE GetWalk(_, _, _, _)
GetWalk(h, st, segs, i) ==
    IF i > Len(segs) THEN st
    ELSE LET p == ParseSeg(segs[i])
             undefined == [flow |-> FALSE, val |-> Undef, arr |-> <<>>]
         IN IF ~st.flow
            THEN IF IsNullish(st.val) THEN undefined
                 ELSE LET nextVal == GetProp(h, st.val, p.key)
                      IN IF p.mode = "prop"
                         THEN GetWalk(h, [flow |-> FALSE, val |-> nextVal, arr |-> <<>>], segs, i + 1)
                         ELSE IF p.mode = "index"
                         THEN IF ~IsArray(h, nextVal) THEN undefined
                              ELSE GetWalk(h, [flow |-> FALSE, val |-> ElemAt(h, nextVal, p.index),
                                               arr |-> <<>>], segs, i + 1)
                         ELSE GetWalk(h, [flow |-> TRUE, val |-> Undef,
                                          arr |-> IF IsArray(h, nextVal) THEN h[nextVal.a].elems
                                                  ELSE IF IsNullish(nextVal) THEN <<>>
                                                  ELSE <<nextVal>>],
                                      segs, i + 1)
            ELSE GetWalk(h, [flow |-> TRUE, val |-> Undef, arr |-> FlowMap(h, st.arr, p)],
                         segs, i + 1)

\* getValueByPath(obj, p): the heap after the call (an array result is a new
\* array) and the value returned.  p is a string value or null.
GetValueByPath(h, obj, p) ==
    IF IsNullish(p) \/ p = Str(<<>>) THEN [h |-> h, v |-> Undef]
    ELSE LET st == GetWalk(h, [flow |-> FALSE, val |-> obj, arr |-> <<>>], SplitDot(p.s), 1)
         IN IF st.flow
            THEN [h |-> Alloc(h, NewArray(st.arr)), v |-> Ref(Len(h) + 1)]
            ELSE [h |-> h, v |-> st.val]

---------------------------------------------------------------------------
(* Path Writer: setValueByPath *)

\* current[key] = value.slice() : a new array with value's elements is stored
\* (main.js line 107); this variant stores the caller's array itself
StoreArrayItself(h, current, key, val) == SetProp(h, current, key, val)

\* the heap after  current[key] = value.slice()
StoreArrayCopy(h, current, key, val) ==
    SetProp(Alloc(h, NewArray(h[val.a].elems)), current, key, Ref(Len(h) + 1))

\* the carrier made anew on every call, the test of lines 115 left out
EnsureCarrierAlwaysNew(h, arr) ==
    [Alloc(h, NewObject) EXCEPT ![arr.a].elems = SetElem(h[arr.a].elems, 0, Ref(Len(h) + 1))]

\* the heap after lines 115-117: index 0 of the array arr holds an object
EnsureCarrier(h, arr) ==
    IF ElemAt(h, arr, 0).t # "ref"
    THEN [Alloc(h, NewObject) EXCEPT ![arr.a].elems = SetElem(h[arr.a].elems, 0, Ref(Len(h) + 1))]
    ELSE h

\* The loop over the segments from segment i on; current is an address.
RECURSIVE SetWalk(_, _, _, _, _)
SetWalk(h, current, segments, i, val) ==
    IF i > Len(segments) THEN h
    ELSE
    LET raw == segments[i]
        isArraySeg == EndsWith(raw, <<"[", "]">>)
        key == IF isArraySeg THEN SubSeq(raw, 1, Len(raw) - 2) ELSE raw
        isLast == i = Len(segments)
        cur == Ref(current)
    IN IF isArraySeg
       THEN LET h1 == IF IsArray(h, GetProp(h, cur, key)) THEN h
                      ELSE SetProp(Alloc(h, NewArray(<<>>)), current, key, Ref(Len(h) + 1))
                arr == GetProp(h1, cur, key)
            IN IF isLast
               THEN IF IsArray(h1, val)
                    THEN StoreArrayCopy(h1, current, key, val)
                    ELSE Push(h1, arr.a, val)
               ELSE LET h2 == EnsureCarrier(h1, arr)
                    IN SetWalk(h2, ElemAt(h2, arr, 0).a, segments, i + 1, val)
       ELSE IF isLast THEN SetProp(h, current, key, val)
            ELSE LET h1 == IF GetProp(h, cur, key).t # "ref"
                           THEN SetProp(Alloc(h, NewObject), current, key, Ref(Len(h) + 1))
                           ELSE h
                 IN SetWalk(h1, GetProp(h1, cur, key).a, segments, i + 1, val)

\* setValueByPath with the guard written  value == null : null is dropped too
SetValueByPathDropsNull(h, tgt, p, val) ==
    IF IsNullish(val) THEN h
    ELSE SetWalk(h, tgt, SplitDot(p), 1, val)

\* setValueByPath with the guard of line 88 left out: undefined is written
SetValueByPathStoresUndefined(h, tgt, p, val) == SetWalk(h, tgt, SplitDot(p), 1, val)

\* the heap after setValueByPath(target, p, val); tgt is target's address,
\* p the characters of the path
SetValueByPath(h, tgt, p, val) ==
    IF val = Undef THEN h
    ELSE SetWalk(h, tgt, SplitDot(p), 1, val)

---------------------------------------------------------------------------
(* Deep comparison *)

\* how deep a structure is followed when two values are compared
SnapDepth == 6

\* The tree a value stands for in heap h, as deepEqual compares it: a
\* primitive is itself, an object is its set of key/value pairs and an array
\* its sequence of elements.  A structure deeper than d is cut.
RECURSIVE Snapshot(_, _, _)
Snapshot(h, v, d) ==
    IF v.t # "ref" THEN v
    ELSE IF d = 0 THEN [t |-> "cut"]
    ELSE LET c == h[v.a]
         IN [t |-> c.kind,
             props |-> {<<c.keys[i], Snapshot(h, c.vals[i], d - 1)>> : i \in 1..Len(c.keys)},
             elems |-> [i \in 1..Len(c.elems) |-> Snapshot(h, c.elems[i], d - 1)]]

Deep(h, v) == Snapshot(h, v, SnapDepth)

---------------------------------------------------------------------------
(* Spec Resolver: resolveSpec *)

LiteralKey == <<"$", "l", "i", "t", "e", "r", "a", "l">>

\* resolveSpec taking "==" for an escape of its own: both characters stripped
ResolveSpecStripsBoth(h, inp, spec) ==
    IF IsNullish(spec) \/ spec = Str(<<>>) THEN [h |-> h, v |-> Undef]
    ELSE IF IsPlainObject(h, spec) /\ HasOwn(h, spec, LiteralKey)
    THEN [h |-> h, v |-> GetProp(h, spec, LiteralKey)]
    ELSE IF spec.t # "string" THEN [h |-> h, v |-> spec]
    ELSE IF StartsWith(spec.s, <<"=">>)
    THEN [h |-> h, v |-> Str(IF StartsWith(spec.s, <<"=", "=">>)
                             THEN SliceFrom(spec.s, 2)
                             ELSE SliceFrom(spec.s, 1))]
    ELSE GetValueByPath(h, inp, spec)

\* resolveSpec(inp, spec): the heap after the call and the value returned
ResolveSpec(h, inp, spec) ==
    IF IsNullish(spec) \/ spec = Str(<<>>) THEN [h |-> h, v |-> Undef]
    ELSE IF IsPlainObject(h, spec) /\ HasOwn(h, spec, LiteralKey)
    THEN [h |-> h, v |-> GetProp(h, spec, LiteralKey)]
    ELSE IF spec.t # "string" THEN [h |-> h, v |-> spec]
    ELSE IF StartsWith(spec.s, <<"=">>)
    THEN [h |-> h, v |-> Str(IF StartsWith(spec.s, <<"=", "=">>)
                             THEN SliceFrom(spec.s, 1)
                             ELSE SliceFrom(spec.s, 1))]
    ELSE GetValueByPath(h, inp, spec)

---------------------------------------------------------------------------
(* Transform Registry: transforms.countryFromISO and the lookup by name *)

LowerLetters ==
    <<"a", "b", "c", "d", "e", "f", "g", "h", "i", "j", "k", "l", "m",
      "n", "o", "p", "q", "r", "s", "t", "u", "v", "w", "x", "y", "z">>
UpperLetters ==
    <<"A", "B", "C", "D", "E", "F", "G", "H", "I", "J", "K", "L", "M",
      "N", "O", "P", "Q", "R", "S", "T", "U", "V", "W", "X", "Y", "Z">>

UpperChar(c) ==
    IF \E i \in 1..Len(LowerLetters) : LowerLetters[i] = c
    THEN UpperLetters[CHOOSE i \in 1..Len(LowerLetters) : LowerLetters[i] = c]
    ELSE c

\* s.toUpperCase()
ToUpperCase(s) == [i \in 1..Len(s) |-> UpperChar(s[i])]

WhiteSpace == {" ", "\t", "\n"}

\* s.trim()
RECURSIVE Trim(_)
Trim(s) ==
    IF Len(s) = 0 THEN s
    ELSE IF s[1] \in WhiteSpace THEN Trim(Tail(s))
    ELSE IF s[Len(s)] \in WhiteSpace THEN Trim(SubSeq(s, 1, Len(s) - 1))
    ELSE s

DigitChars == <<"0", "1", "2", "3", "4", "5", "6", "7", "8", "9">>

\* String(n) for a natural number n
RECURSIVE NatToString(_)
NatToString(n) ==
    IF n < 10 THEN <<DigitChars[n + 1]>>
    ELSE NatToString(n \div 10) \o <<DigitChars[(n % 10) + 1]>>

\* String(v), as countryFromISO applies it to its argument
RECURSIVE ToJSString(_, _)
RECURSIVE JoinElems(_, _)
JoinElems(h, es) ==
    IF Len(es) = 0 THEN <<>>
    ELSE (IF IsNullish(es[1]) THEN <<>> ELSE ToJSString(h, es[1]))
            \o (IF Len(es) = 1 THEN <<>> ELSE <<",">> \o JoinElems(h, Tail(es)))

ToJSString(h, v) ==
    CASE v.t = "string" -> v.s
      [] v.t = "number" -> NatToString(v.n)
      [] v.t = "boolean" -> IF v.b THEN <<"t", "r", "u", "e">> ELSE <<"f", "a", "l", "s", "e">>
      [] v.t = "null" -> <<"n", "u", "l", "l">>
      [] v.t = "undefined" -> <<"u", "n", "d", "e", "f", "i", "n", "e", "d">>
      [] v.t = "function" -> <<"f", "u", "n", "c", "t", "i", "o", "n", " ">> \o v.f \o <<"(", ")", " ", "{", " ", "[", "n", "a", "t", "i", "v", "e", " ", "c", "o", "d", "e", "]", " ", "}">>
      [] v.t = "ref" -> IF h[v.a].kind = "array" THEN JoinElems(h, h[v.a].elems)
                        ELSE <<"[", "o", "b", "j", "e", "c", "t", " ", "O", "b", "j", "e", "c", "t", "]">>

\* the static fallback table of countryFromISO
FallbackCodes == <<<<"G", "B">>, <<"U", "S">>, <<"P", "H">>, <<"C", "A">>, <<"A", "U">>>>
FallbackNames ==
    <<<<"U", "n", "i", "t", "e", "d", " ", "K", "i", "n", "g", "d", "o", "m">>,
      <<"U", "n", "i", "t", "e", "d", " ", "S", "t", "a", "t", "e", "s">>,
      <<"P", "h", "i", "l", "i", "p", "p", "i", "n", "e", "s">>,
      <<"C", "a", "n", "a", "d", "a">>,
      <<"A", "u", "s", "t", "r", "a", "l", "i", "a">>>>

\* fallback[normalized]
Fallback(normalized) ==
    IF \E i \in 1..Len(FallbackCodes) : FallbackCodes[i] = normalized
    THEN Str(FallbackNames[CHOOSE i \in 1..Len(FallbackCodes) : FallbackCodes[i] = normalized])
    ELSE ProtoProp(normalized)

\* The try block of countryFromISO.  `new Intl.DisplayNames ? ... : null`
\* constructs Intl.DisplayNames with no arguments before the test is made;
\* the constructor requires its options, so the construction raises, the
\* catch clause takes over and no region name is found.
IntlRegionName(normalized) == Undef

\* transforms.countryFromISO(code)
CountryFromISO(h, code) ==
    IF IsNullish(code) \/ code = Str(<<>>) THEN Undef
    ELSE LET normalized == ToUpperCase(Trim(ToJSString(h, code)))
             name == IntlRegionName(normalized)
         IN IF name # Undef /\ name # Str(<<>>) /\ name # Str(normalized) THEN name
            ELSE IF Fallback(normalized) \notin {Undef, Str(<<>>)}
            THEN Fallback(normalized)
            ELSE Str(normalized)

CountryFromISOName == <<"c", "o", "u", "n", "t", "r", "y", "F", "r", "o", "m", "I", "S", "O">>

\* transforms[fnName]: the registry's own key, or a member the registry
\* object inherits from Object.prototype
LookupTransform(fnName) ==
    IF fnName.t # "string" THEN Undef
    ELSE IF fnName.s = CountryFromISOName THEN Fn(CountryFromISOName)
    ELSE ProtoProp(fnName.s)

\* fn(...args): the value returned, or raised when the call throws.
\* Object.prototype.toString called with no receiver returns
\* "[object Undefined]"; Object.prototype.valueOf with no receiver throws a
\* TypeError.
Invoke(h, fn, args) ==
    CASE fn.f = CountryFromISOName ->
            [raised |-> FALSE,
             v |-> CountryFromISO(h, IF Len(args) >= 1 THEN args[1] ELSE Undef)]
      [] fn.f = ToStringName -> [raised |-> FALSE, v |-> Str(<<"[", "o", "b", "j", "e", "c", "t", " ", "U", "n", "d", "e", "f", "i", "n", "e", "d", "]">>)]
      [] fn.f = ValueOfName -> [raised |-> TRUE, v |-> Undef]

---------------------------------------------------------------------------
(* Mapping Interpreter: transform and transformOne *)

TransformKey == <<"$", "t", "r", "a", "n", "s", "f", "o", "r", "m">>
ArgsKey == <<"$", "a", "r", "g", "s">>
PathKey == <<"$", "p", "a", "t", "h">>

\* rawArgs.map((a) => resolveSpec(input, a)) from argument i on: the heap
\* after the calls and the values returned.  r is the result of resolving
\* argument i.
RECURSIVE ResolveAll(_, _, _, _)
ResolveRest(r, inp, rawArgs, i) ==
    [h |-> ResolveAll(r.h, inp, rawArgs, i + 1).h,
     args |-> <<r.v>> \o ResolveAll(r.h, inp, rawArgs, i + 1).args]

ResolveAll(h, inp, rawArgs, i) ==
    IF i > Len(rawArgs) THEN [h |-> h, args |-> <<>>]
    ELSE ResolveRest(ResolveSpec(h, inp, rawArgs[i]), inp, rawArgs, i)

\* Array.isArray(sourceSpec.$args) ? sourceSpec.$args : [sourceSpec.$args]
RawArgs(h, a) == IF IsArray(h, a) THEN h[a.a].elems ELSE <<a>>

\* the argument list of a transform directive (lines 225-231)
DirectiveArgs(h, inp, sourceSpec) ==
    IF HasOwn(h, sourceSpec, ArgsKey)
    THEN ResolveAll(h, inp, RawArgs(h, GetProp(h, sourceSpec, ArgsKey)), 1)
    ELSE IF HasOwn(h, sourceSpec, PathKey)
    THEN ResolveAll(h, inp, <<GetProp(h, sourceSpec, PathKey)>>, 1)
    ELSE [h |-> h, args |-> <<>>]

\* lines 233-238: the heap after the outcome r of the call of the transform
\* function is dealt with
StoreOutcome(h, res, targetPath, r) ==
    IF r.raised THEN h
    ELSE IF r.v # Undef THEN SetValueByPath(h, res, targetPath, r.v)
    ELSE h

\* lines 233-238 for the function fn and the resolved arguments a
CallTransform(a, res, targetPath, fn) ==
    StoreOutcome(a.h, res, targetPath, Invoke(a.h, fn, a.args))

\* lines 218-239: a transform directive
Directive(h, res, inp, targetPath, sourceSpec, fn) ==
    IF fn.t # "function" THEN h
    ELSE CallTransform(DirectiveArgs(h, inp, sourceSpec), res, targetPath, fn)

\* lines 270-272 for the result r of getValueByPath
StoreResolved(r, res, targetPath) ==
    IF r.v = Undef THEN r.h
    ELSE SetValueByPath(r.h, res, targetPath, r.v)

\* One iteration of transformOne's loop: the heap after the entry
\* (targetPath, sourceSpec) is processed for the record inp into the result
\* object at address res.
EntryStep(h, res, inp, targetPath, sourceSpec) ==
    IF sourceSpec = Str(<<>>) \/ sourceSpec = Null THEN h
    ELSE IF IsPlainObject(h, sourceSpec) /\ HasOwn(h, sourceSpec, TransformKey)
    THEN Directive(h, res, inp, targetPath, sourceSpec,
                   LookupTransform(GetProp(h, sourceSpec, TransformKey)))
    ELSE IF IsPlainObject(h, sourceSpec) /\ HasOwn(h, sourceSpec, LiteralKey)
    THEN SetValueByPath(h, res, targetPath, GetProp(h, sourceSpec, LiteralKey))
    ELSE IF sourceSpec.t # "string"
    THEN SetValueByPath(h, res, targetPath, sourceSpec)
    ELSE IF StartsWith(sourceSpec.s, <<"=">>)
    THEN SetValueByPath(h, res, targetPath,
                        Str(IF StartsWith(sourceSpec.s, <<"=", "=">>)
                            THEN SliceFrom(sourceSpec.s, 1)
                            ELSE SliceFrom(sourceSpec.s, 1)))
    ELSE StoreResolved(GetValueByPath(h, inp, sourceSpec), res, targetPath)

\* Object.entries(mapping): the own keys with their values, in insertion
\* order (the mappings of the model hold no integer-like key, which
\* JavaScript would list first)
EntriesOf(h, m) == [i \in 1..Len(h[m].keys) |-> [key |-> h[m].keys[i], val |-> h[m].vals[i]]]

\* the loop of transformOne from entry j on
RECURSIVE RunEntries(_, _, _, _, _)
RunEntries(h, res, inp, es, j) ==
    IF j > Len(es) THEN h
    ELSE RunEntries(EntryStep(h, res, inp, es[j].key, es[j].val), res, inp, es, j + 1)

\* transformOne(inp, mapping) over the entries es: the heap after the call
\* and the result object returned
TransformOne(h, inp, es) ==
    [h |-> RunEntries(Alloc(h, NewObject), Len(h) + 1, inp, es, 1), v |-> Ref(Len(h) + 1)]

\* input.map((item) => transformOne(item, mapping)) from record i on: the
\* heap after the calls and the objects returned.  r is the result of record i.
RECURSIVE MapItems(_, _, _, _)
MapRest(r, its, m, i) ==
    [h |-> MapItems(r.h, its, m, i + 1).h,
     vs |-> <<r.v>> \o MapItems(r.h, its, m, i + 1).vs]

MapItems(h, its, m, i) ==
    IF i > Len(its) THEN [h |-> h, vs |-> <<>>]
    ELSE MapRest(TransformOne(h, its[i], EntriesOf(h, m)), its, m, i)

\* the array input.map returns, made of the mapped records r
MappedArray(r) == [h |-> Alloc(r.h, NewArray(r.vs)), v |-> Ref(Len(r.h) + 1)]

\* transform(inp, mapping): the heap after the call and the value returned
Transform(h, inp, m) ==
    IF IsArray(h, inp)
    THEN MappedArray(MapItems(h, h[inp.a].elems, m, 1))
    ELSE TransformOne(h, inp, EntriesOf(h, m))

---------------------------------------------------------------------------
(* Single calls of the exported functions *)

\* the longest path string a caller passes
MaxPathLen == 5

\* the characters of the path strings: a letter key, a digit, the separator,
\* the brackets
PathChars == {"a", "0", ".", "[", "]"}

Strings(chars, n) == UNION {[1..k -> chars] : k \in 0..n}

Paths == Strings(PathChars, MaxPathLen)

\* The heap the callers start from.
\*  1: {}                      the empty target of setValueByPath
\*  2: {a: 0}                  an object a caller passes as value
\*  3: [1]                     an array a caller passes as value
\*  4: {a: @5, 0: @9}          a document to read from
\*  5: [@6, null, @8]    6: {a: @7}    7: [1]    8: {a: "s"}    9: {a: 0}
\* 10: {$literal: @2}          a literal wrapper
\* 11: {a: 0, $literal: null}  a literal wrapper of null, with another key
ApiHeap ==
    << NewObject,
       ObjectOf(<< <<"a">> >>, <<Num(0)>>),
       NewArray(<<Num(1)>>),
       ObjectOf(<< <<"a">>, <<"0">> >>, <<Ref(5), Ref(9)>>),
       NewArray(<<Ref(6), Null, Ref(8)>>),
       ObjectOf(<< <<"a">> >>, <<Ref(7)>>),
       NewArray(<<Num(1)>>),
       ObjectOf(<< <<"a">> >>, <<Str(<<"s">>)>>),
       ObjectOf(<< <<"a">> >>, <<Num(0)>>),
       ObjectOf(<<LiteralKey>>, <<Ref(2)>>),
       ObjectOf(<< <<"a">>, LiteralKey >>, <<Num(0), Null>>) >>

\* the values a caller writes
WriteValues == {Undef, Null, Num(0), Str(<<>>), Ref(2), Ref(3)}

\* the roots a caller reads from
ReadRoots == {Ref(4), Null, Str(<<"s">>)}

\* the longest string handed to resolveSpec, and its characters
MaxSpecLen == 4
SpecChars == {"=", "a", ".", "[", "]"}

\* the entry values handed to resolveSpec
ResolveSpecs ==
    {Null, Undef, Num(0), Bool(FALSE), Bool(TRUE), Ref(2), Ref(3), Ref(10), Ref(11)}
        \cup {Str(s) : s \in Strings(SpecChars, MaxSpecLen)}

NoXform ==
    /\ input = Undef /\ mapping = 0 /\ items = <<>> /\ rec = 0 /\ entries = <<>>
    /\ ent = 0 /\ result = 0 /\ out = <<>> /\ run = 0 /\ heap0 = <<>> /\ first = <<>>

InitApi ==
    /\ heap = ApiHeap
    /\ pc = "ready"
    /\ target = 1
    /\ path = Null
    /\ value = Undef
    /\ ret = Undef
    /\ calls = <<>>
    /\ NoXform

\* setValueByPath(target, p, v) on the empty target
WriteCall ==
    /\ pc = "ready"
    /\ \E p \in Paths, v \in WriteValues :
        /\ heap' = SetValueByPath(heap, target, p, v)
        /\ path' = Str(p)
        /\ value' = v
        /\ calls' = Append(calls, [path |-> p, value |-> v])
        /\ pc' = "written"
        /\ UNCHANGED <<target, ret>>
        /\ UNCHANGED xformVars

\* getValueByPath(target, p) with the path just written
ReadBack ==
    /\ pc = "written"
    /\ LET r == GetValueByPath(heap, Ref(target), path)
       IN heap' = r.h /\ ret' = r.v
    /\ pc' = "readback"
    /\ UNCHANGED <<target, path, value, calls>>
    /\ UNCHANGED xformVars

\* getValueByPath(obj, p) on a document
ReadCall ==
    /\ pc = "ready"
    /\ \E p \in Paths, o \in ReadRoots :
        /\ LET r == GetValueByPath(heap, o, Str(p))
           IN heap' = r.h /\ ret' = r.v
        /\ path' = Str(p)
        /\ value' = o
        /\ pc' = "read"
        /\ UNCHANGED <<target, calls>>
        /\ UNCHANGED xformVars

\* resolveSpec(obj, e) on a document; path holds e and value holds obj
ResolveCall ==
    /\ pc = "ready"
    /\ \E e \in ResolveSpecs, o \in ReadRoots :
        /\ LET r == ResolveSpec(heap, o, e)
           IN heap' = r.h /\ ret' = r.v
        /\ path' = e
        /\ value' = o
        /\ pc' = "resolved"
        /\ UNCHANGED <<target, calls>>
        /\ UNCHANGED xformVars

NextApi == WriteCall \/ ReadBack \/ ReadCall \/ ResolveCall

SpecApi == InitApi /\ [][NextApi]_vars

---------------------------------------------------------------------------
(* A sequence of setValueByPath calls on one target *)

\* the number of calls made on the target
MaxCalls == 3

\* the paths of the calls: two fields of the carrier of k, and k's array itself
CarrierPaths == {<<"k", "[", "]", ".", "a">>, <<"k", "[", "]", ".", "b">>}
PushPath == <<"k", "[", "]">>
SeqPaths == CarrierPaths \cup {PushPath}

\* the values of the calls: primitives, an object and two arrays of the caller
CallerArrays == {Ref(3), Ref(5)}
SeqValues == {Undef, Null, Num(0), Ref(2)} \cup CallerArrays

\* setValueByPath(target, p, v), one more call on the same target
SetNext ==
    /\ pc = "ready"
    /\ Len(calls) < MaxCalls
    /\ \E p \in SeqPaths, v \in SeqValues :
        /\ heap' = SetValueByPath(heap, target, p, v)
        /\ path' = Str(p)
        /\ value' = v
        /\ calls' = Append(calls, [path |-> p, value |-> v])
        /\ UNCHANGED <<pc, target, ret>>
        /\ UNCHANGED xformVars

NextSet == SetNext

SpecSet == InitApi /\ [][NextSet]_vars

---------------------------------------------------------------------------
(* Calls of transform *)

\* the most entries a mapping holds
MaxEntries == 3

\* The heap transform's caller starts from: the parsed input and the values
\* of the parsed mapping.
\*  1: {x: "gb", o: @2, r: @3}    2: {c: 1}    3: [1]     the first record
\*  4: {x: "US", o: @5, r: @6}    5: {c: 2}    6: [2]     the second record
\*  7: [@1, @4]                                           the array input
\*  8: []                                                 a literal array
\*  9: {$transform: "countryFromISO", $path: "x"}
\* 10: {$transform: "toString"}
\* 11: {$transform: "valueOf", $args: @12}     12: ["=v", "x"]
\* 13: {$transform: "nope", $path: "x"}
XformHeap ==
    << ObjectOf(<< <<"x">>, <<"o">>, <<"r">> >>, <<Str(<<"g", "b">>), Ref(2), Ref(3)>>),
       ObjectOf(<< <<"c">> >>, <<Num(1)>>),
       NewArray(<<Num(1)>>),
       ObjectOf(<< <<"x">>, <<"o">>, <<"r">> >>, <<Str(<<"U", "S">>), Ref(5), Ref(6)>>),
       ObjectOf(<< <<"c">> >>, <<Num(2)>>),
       NewArray(<<Num(2)>>),
       NewArray(<<Ref(1), Ref(4)>>),
       NewArray(<<>>),
       ObjectOf(<<TransformKey, PathKey>>, <<Str(CountryFromISOName), Str(<<"x">>)>>),
       ObjectOf(<<TransformKey>>, <<Str(ToStringName)>>),
       ObjectOf(<<TransformKey, ArgsKey>>, <<Str(ValueOfName), Ref(12)>>),
       NewArray(<<Str(<<"=", "v">>), Str(<<"x">>)>>),
       ObjectOf(<<TransformKey, PathKey>>, <<Str(<<"n", "o", "p", "e">>), Str(<<"x">>)>>) >>

\* the inputs: one record, or an array of two records
Inputs == {Ref(1), Ref(7)}

\* the target paths of a mapping, in the order its keys are written
TargetPaths == << <<"a">>, <<"b">>, <<"a", ".", "b">>, <<"b", "[", "]">> >>

\* the entry values of a mapping: paths to a string, an object, an array and
\* a missing key of the record, and a wildcard path over the array; a string
\* literal; a literal array; and directives naming countryFromISO, toString,
\* valueOf and an unknown name
SourceSpecs ==
    {Str(<<"x">>), Str(<<"o">>), Str(<<"r">>), Str(<<"m">>), Str(<<"r", "[", "]", ".", "c">>),
     Str(<<"=", "v">>), Ref(8), Ref(9), Ref(10), Ref(11), Ref(13)}

\* the members of a set of numbers in increasing order
RECURSIVE Sorted(_)
Sorted(S) ==
    IF S = {} THEN <<>>
    ELSE LET m == CHOOSE x \in S : \A y \in S : x <= y
         IN <<m>> \o Sorted(S \ {m})

\* the target paths numbered by K, in order
KeysOf(K) == [i \in 1..Cardinality(K) |-> TargetPaths[Sorted(K)[i]]]

\* a parsed JSON document is a tree: no object is the value of two entries
NoSharedValue(vs) == \A i, j \in 1..Len(vs) : (i # j /\ vs[i].t = "ref") => vs[i] # vs[j]

\* The mappings: up to MaxEntries of the target paths, in order, each with an
\* entry value.
InitTransform ==
    /\ \E K \in {L \in SUBSET (1..Len(TargetPaths)) : Cardinality(L) <= MaxEntries} :
        \E vs \in [1..Cardinality(K) -> SourceSpecs] :
            /\ NoSharedValue(vs)
            /\ heap = Append(XformHeap, ObjectOf(KeysOf(K), vs))
    /\ mapping = Len(XformHeap) + 1
    /\ input \in Inputs
    /\ pc = "idle"
    /\ target = 0 /\ path = Null /\ value = Undef /\ ret = Undef /\ calls = <<>>
    /\ items = <<>> /\ rec = 0 /\ entries = <<>> /\ ent = 0 /\ result = 0
    /\ out = <<>> /\ run = 0 /\ heap0 = <<>> /\ first = <<>>

\* transform(input, mapping) is called: the records to map are fixed
Call ==
    /\ pc = "idle"
    /\ run' = 1
    /\ heap0' = heap
    /\ items' = IF IsArray(heap, input) THEN heap[input.a].elems ELSE <<input>>
    /\ rec' = 1
    /\ out' = <<>>
    /\ pc' = IF IsArray(heap, input) /\ Len(heap[input.a].elems) = 0 THEN "return" ELSE "record"
    /\ UNCHANGED <<heap, input, mapping, entries, ent, result, first>>
    /\ UNCHANGED apiVars

\* transformOne(items[rec], mapping) starts: result = {} and the entries are taken
BeginRecord ==
    /\ pc = "record"
    /\ heap' = Alloc(heap, NewObject)
    /\ result' = Len(heap) + 1
    /\ entries' = EntriesOf(heap, mapping)
    /\ ent' = 1
    /\ pc' = "entry"
    /\ UNCHANGED <<input, mapping, items, rec, out, run, heap0, first>>
    /\ UNCHANGED apiVars

\* one iteration of transformOne's loop
Entry ==
    /\ pc = "entry"
    /\ ent <= Len(entries)
    /\ heap' = EntryStep(heap, result, items[rec], entries[ent].key, entries[ent].val)
    /\ ent' = ent + 1
    /\ UNCHANGED <<pc, input, mapping, items, rec, entries, result, out, run, heap0, first>>
    /\ UNCHANGED apiVars

\* transformOne returns result; the next record follows, or the end of the map
EndRecord ==
    /\ pc = "entry"
    /\ ent > Len(entries)
    /\ out' = Append(out, Ref(result))
    /\ IF rec < Len(items)
       THEN rec' = rec + 1 /\ pc' = "record"
       ELSE rec' = rec /\ pc' = "return"
    /\ UNCHANGED <<heap, input, mapping, items, entries, ent, result, run, heap0, first>>
    /\ UNCHANGED apiVars

\* transform returns: the array of the results, or the one result
Return ==
    /\ pc = "return"
    /\ IF IsArray(heap0, input)
       THEN heap' = Alloc(heap, NewArray(out)) /\ ret' = Ref(Len(heap) + 1)
       ELSE heap' = heap /\ ret' = out[1]
    /\ first' = [h |-> heap', v |-> ret']
    /\ pc' = "done"
    /\ UNCHANGED <<target, path, value, calls>>
    /\ UNCHANGED <<input, mapping, items, rec, entries, ent, result, out, run, heap0>>

\* transform is called once more with the same arguments, and returns
CallAgain ==
    /\ pc = "done"
    /\ run = 1
    /\ LET r == Transform(heap, input, mapping)
       IN heap' = r.h /\ ret' = r.v
    /\ run' = 2
    /\ UNCHANGED <<pc, target, path, value, calls>>
    /\ UNCHANGED <<input, mapping, items, rec, entries, ent, result, out, heap0, first>>

NextTransform == Call \/ BeginRecord \/ Entry \/ EndRecord \/ Return \/ CallAgain

SpecTransform == InitTransform /\ [][NextTransform]_vars

---------------------------------------------------------------------------
(* Single writes and calls of transform together *)

InitOmit == InitApi \/ InitTransform

NextOmit == WriteCall \/ NextTransform

SpecOmit == InitOmit /\ [][NextOmit]_vars

---------------------------------------------------------------------------
(* Single calls of transforms.countryFromISO *)

\* the longest code string a caller passes, and its characters
MaxCodeLen == 3
CodeChars == {"G", "B", "b", "x", " "}

\* the arguments of the calls: code strings, null, and values that are not
\* strings
Codes ==
    {Str(s) : s \in Strings(CodeChars, MaxCodeLen)}
        \cup {Null, Num(0), Bool(TRUE), Ref(2), Ref(3)}

\* transforms.countryFromISO(c); value holds c
CountryCall ==
    /\ pc = "ready"
    /\ \E c \in Codes :
        /\ ret' = CountryFromISO(heap, c)
        /\ value' = c
        /\ pc' = "country"
        /\ UNCHANGED <<heap, target, path, calls>>
        /\ UNCHANGED xformVars

NextCountry == CountryCall

SpecCountry == InitApi /\ [][NextCountry]_vars

---------------------------------------------------------------------------
(* Reads along paths of several segments *)

\* the most segments a path holds
MaxSegs == 3

\* the segments: plain keys, wildcards and indices
FlowSegs ==
    {<<"a">>, <<"0">>, <<"a", "[", "]">>, <<"0", "[", "]">>,
     <<"a", "[", "0", "]">>, <<"a", "[", "1", "]">>}

\* segs joined by "."
RECURSIVE JoinDot(_)
JoinDot(segs) ==
    IF Len(segs) = 0 THEN <<>>
    ELSE IF Len(segs) = 1 THEN segs[1]
    ELSE segs[1] \o <<".">> \o JoinDot(Tail(segs))

\* the path strings of one to MaxSegs segments
FlowPaths == {JoinDot(ss) : ss \in UNION {[1..n -> FlowSegs] : n \in 1..MaxSegs}}

\* the documents read: one with an array of objects and a null, and objects
\* whose key a holds an array, a string and a number
FlowRoots == {Ref(4), Ref(6), Ref(8), Ref(9)}

\* getValueByPath(o, p) along a path of segments; value holds o
FlowRead ==
    /\ pc = "ready"
    /\ \E p \in FlowPaths, o \in FlowRoots :
        /\ LET r == GetValueByPath(heap, o, Str(p))
           IN heap' = r.h /\ ret' = r.v
        /\ path' = Str(p)
        /\ value' = o
        /\ pc' = "flowread"
        /\ UNCHANGED <<target, calls>>
        /\ UNCHANGED xformVars

NextFlow == FlowRead

SpecFlow == InitApi /\ [][NextFlow]_vars

---------------------------------------------------------------------------
(* Claims about single calls *)

Segments(p) == {SplitDot(p)[i] : i \in 1..Len(SplitDot(p))}

\* the path string holds no "[]"
NoWildcard(p) == ~\E i \in 1..(Len(p) - 1) : p[i] = "[" /\ p[i + 1] = "]"

\* no segment of the path is an Index segment key[n] of the reader's grammar
NoIndexSegment(p) == \A seg \in Segments(p) : ParseSeg(seg).mode # "index"

\* some segment of the path is a Wildcard segment key[] of the reader's grammar
HasWildcardSegment(p) == \E seg \in Segments(p) : ParseSeg(seg).mode = "wildcard"

\* the value read back is the value written, and stands for the same tree
ReadBackIsWritten == ret = value /\ Deep(heap, ret) = Deep(ApiHeap, value)

\* C1 as stated: for every path with no "[]" and every value other than
\* undefined, reading the path back from the object it was written into,
\* starting from {}, returns the value written.
C1_RoundTripAnyPath ==
    (pc = "readback" /\ value # Undef /\ NoWildcard(path.s)) => ReadBackIsWritten

\* C1, amended: the round trip holds for every non-empty path with no "[]"
\* and no Index segment key[n], and every value other than undefined.
C1_RoundTrip ==
    (pc = "readback" /\ value # Undef /\ NoWildcard(path.s)
        /\ path.s # <<>> /\ NoIndexSegment(path.s)) => ReadBackIsWritten

\* a nested path, written with an object and read back
C1_Witness ==
    /\ pc = "readback"
    /\ path.s = <<"a", ".", "0", ".", "a">>
    /\ value = Ref(2)
    /\ ret = Ref(2)

\* C8: when a Wildcard segment appears anywhere in the path, getValueByPath
\* returns an array, whatever it reads from.
C8_WildcardYieldsArray ==
    (pc \in {"read", "readback"} /\ HasWildcardSegment(path.s)) => IsArray(heap, ret)

\* the cases of C9, first match first, for entry value e read against inp
C9_Case(h, inp, e) ==
    CASE e = Null \/ e = Str(<<>>) -> "skip"
      [] e # Null /\ e # Str(<<>>) /\ e.t = "ref" /\ h[e.a].kind = "object"
            /\ \E i \in 1..Len(h[e.a].keys) : h[e.a].keys[i] = LiteralKey -> "wrapped"
      [] OTHER -> IF e.t # "string" THEN "itself"
                  ELSE IF Head(e.s) = "=" THEN "stripped"
                  ELSE "path"

\* C9: resolveSpec(input, e) is undefined for null and ""; e.$literal for a
\* non-array object with an own $literal key; e itself for any other
\* non-string; e without its first character for a string that starts with
\* "="; and getValueByPath(input, e) otherwise.
C9_ResolveCases ==
    pc = "resolved" =>
        LET c == C9_Case(ApiHeap, value, path)
        IN CASE c = "skip" -> ret = Undef
             [] c = "wrapped" ->
                  \E i \in 1..Len(ApiHeap[path.a].keys) :
                      ApiHeap[path.a].keys[i] = LiteralKey /\ ret = ApiHeap[path.a].vals[i]
             [] c = "itself" -> ret = path
             [] c = "stripped" -> ret = Str(Tail(path.s))
             [] c = "path" ->
                  LET r == GetValueByPath(ApiHeap, value, path)
                  IN Deep(heap, ret) = Deep(r.h, r.v)

\* "==a" resolved to the literal "=a"
C9_Witness ==
    pc = "resolved" /\ path = Str(<<"=", "=", "a">>) /\ ret = Str(<<"=", "a">>)

---------------------------------------------------------------------------
(* Claims about sequences of setValueByPath calls *)

KeyK == <<"k">>

\* target.k as the heap holds it (undefined when target has no key k)
TargetK ==
    LET c == heap[target]
    IN IF \E i \in 1..Len(c.keys) : c.keys[i] = KeyK
       THEN c.vals[CHOOSE i \in 1..Len(c.keys) : c.keys[i] = KeyK]
       ELSE Undef

\* the field a carrier path k[].f names
FieldOf(p) == SubSeq(p, 5, Len(p))

\* the calls so far all write a defined value through k[].f, and there is one
OnlyCarrierCalls ==
    /\ Len(calls) > 0
    /\ \A i \in 1..Len(calls) : calls[i].path \in CarrierPaths /\ calls[i].value # Undef

\* the last call that wrote field f
LastCallOf(f) ==
    CHOOSE i \in 1..Len(calls) :
        /\ FieldOf(calls[i].path) = f
        /\ \A j \in (i + 1)..Len(calls) : FieldOf(calls[j].path) # f

\* C4: after calls that all write defined values through k[].f on a target
\* that started empty, target.k is an array of exactly one element, an
\* object whose fields are the fields written, each with its last value.
C4_OneCarrier ==
    OnlyCarrierCalls =>
        /\ TargetK.t = "ref"
        /\ heap[TargetK.a].kind = "array"
        /\ Len(heap[TargetK.a].elems) = 1
        /\ LET e == heap[TargetK.a].elems[1]
           IN /\ e.t = "ref"
              /\ heap[e.a].kind = "object"
              /\ {heap[e.a].keys[i] : i \in 1..Len(heap[e.a].keys)}
                    = {FieldOf(calls[i].path) : i \in 1..Len(calls)}
              /\ \A i \in 1..Len(heap[e.a].keys) :
                    heap[e.a].vals[i] = calls[LastCallOf(heap[e.a].keys[i])].value

\* two fields written, one of them twice
C4_Witness ==
    /\ OnlyCarrierCalls
    /\ Len(calls) = 3
    /\ calls[1].path = calls[3].path
    /\ calls[1].path # calls[2].path
    /\ calls[1].value # calls[3].value
    /\ Len(heap[heap[TargetK.a].elems[1].a].keys) = 2

\* the calls so far all go to k[], and one of them wrote a defined value
OnlyPushCalls ==
    /\ \A i \in 1..Len(calls) : calls[i].path = PushPath
    /\ \E i \in 1..Len(calls) : calls[i].value # Undef

WroteArray(i) == calls[i].value \in CallerArrays

\* the last call that wrote an array, 0 when none did
LastArrayCall ==
    IF \E i \in 1..Len(calls) : WroteArray(i)
    THEN CHOOSE i \in 1..Len(calls) :
            WroteArray(i) /\ \A j \in (i + 1)..Len(calls) : ~WroteArray(j)
    ELSE 0

\* the values written after call j, the undefined ones left out
RECURSIVE WrittenAfter(_)
WrittenAfter(j) ==
    IF j >= Len(calls) THEN <<>>
    ELSE (IF calls[j + 1].value = Undef THEN <<>> ELSE <<calls[j + 1].value>>)
            \o WrittenAfter(j + 1)

\* C5: after calls that all go to k[] on a target that started empty,
\* target.k holds the elements of the last array written (none when no array
\* was written) followed by the non-array values written after it, in call
\* order; it is an array of its own, and the caller's arrays are as they were.
C5_PushOrReplace ==
    OnlyPushCalls =>
        /\ TargetK.t = "ref"
        /\ TargetK \notin CallerArrays
        /\ heap[TargetK.a].kind = "array"
        /\ heap[TargetK.a].elems =
              (IF LastArrayCall = 0 THEN <<>> ELSE ApiHeap[calls[LastArrayCall].value.a].elems)
                  \o WrittenAfter(LastArrayCall)
        /\ \A a \in CallerArrays : heap[a.a] = ApiHeap[a.a]

\* a scalar, then an array that replaces it, then a scalar pushed onto the copy
C5_Witness ==
    /\ OnlyPushCalls
    /\ Len(calls) = 3
    /\ calls[1].value = Num(0)
    /\ calls[2].value = Ref(3)
    /\ calls[3].value = Null
    /\ heap[TargetK.a].elems = <<Num(1), Null>>

---------------------------------------------------------------------------
(* Claims about calls of transform *)

\* the addresses a cell holds
RefsOf(c) ==
    {c.vals[i].a : i \in {j \in 1..Len(c.vals) : c.vals[j].t = "ref"}}
        \cup {c.elems[i].a : i \in {j \in 1..Len(c.elems) : c.elems[j].t = "ref"}}

\* the addresses that can be reached from the addresses S
RECURSIVE ReachFrom(_, _)
ReachFrom(h, S) ==
    LET N == S \cup UNION {RefsOf(h[a]) : a \in S}
    IN IF N = S THEN S ELSE ReachFrom(h, N)

\* the objects and arrays the value v is made of
Reach(h, v) == IF v.t = "ref" THEN ReachFrom(h, {v.a}) ELSE {}

\* the first call of transform has returned
Returned == pc = "done" /\ run = 1

\* the result of transformOne(items[i], mapping) made on its own, from the
\* state transform was called in
Alone(i) == TransformOne(heap0, items[i], EntriesOf(heap0, mapping))

\* C2: for an array input, transform returns an array with one output record
\* per input record, in order; each output record equals the result of
\* transforming its input record alone; and no two output records share an
\* object or an array.
C2_RecordsIndependent ==
    (Returned /\ IsArray(heap0, input)) =>
        /\ IsArray(heap, ret)
        /\ heap[ret.a].elems = out
        /\ Len(out) = Len(heap0[input.a].elems)
        /\ \A i \in 1..Len(out) : Deep(heap, out[i]) = Deep(Alone(i).h, Alone(i).v)
        /\ \A i, j \in 1..Len(out) : i # j => Reach(heap, out[i]) \cap Reach(heap, out[j]) = {}

\* C3: when transform has returned, the input and the mapping are deep-equal
\* to what they were before the call, and a second call with the same
\* arguments returns a result deep-equal to the first.
C3_Pure ==
    pc = "done" =>
        /\ Deep(heap, input) = Deep(heap0, input)
        /\ Deep(heap, Ref(mapping)) = Deep(heap0, Ref(mapping))
        /\ run = 2 => Deep(heap, ret) = Deep(first.h, first.v)

\* the own keys of the object at address a
OwnKeys(h, a) == {h[a].keys[i] : i \in 1..Len(h[a].keys)}

\* the entry value e is a source path: a string that is not a literal
IsSourcePath(e) == e.t = "string" /\ e # Str(<<>>) /\ ~StartsWith(e.s, <<"=">>)

\* the source path e does not resolve in the record inp
Unresolved(h, inp, e) == IsSourcePath(e) /\ GetValueByPath(h, inp, e).v = Undef

\* the key of the output record a target path starts with
TopKey(p) ==
    LET seg == SplitDot(p)[1]
    IN IF EndsWith(seg, <<"[", "]">>) THEN SubSeq(seg, 1, Len(seg) - 2) ELSE seg

\* setValueByPath is called with undefined
WritesUndefined == pc = "ready" /\ pc' = "written" /\ value' = Undef

\* the entry at hand is a source path that does not resolve in the record
EntryUnresolved ==
    /\ pc = "entry"
    /\ ent' = ent + 1
    /\ Unresolved(heap, items[rec], entries[ent].val)

\* every entry that writes under the key k is a source path that does not
\* resolve in record i
AllUnresolved(i, k) ==
    \A j \in 1..Len(entries) :
        TopKey(entries[j].key) = k => Unresolved(heap0, items[i], entries[j].val)

\* C6: setValueByPath with undefined leaves the heap as it is, for every
\* path; an entry whose source path does not resolve in the record leaves the
\* heap as it is; and in the output record, a key that only such entries
\* write under is absent.
C6_MissingMeansOmit ==
    /\ [][(WritesUndefined \/ EntryUnresolved) => heap' = heap]_vars
    /\ [](Returned =>
            \A i \in 1..Len(out) : \A j \in 1..Len(entries) :
                AllUnresolved(i, TopKey(entries[j].key))
                    => TopKey(entries[j].key) \notin OwnKeys(heap, out[i].a))

\* one record mapped by  a <- "m" (missing), b <- "x" : the output holds b only
C6_Witness ==
    /\ Returned
    /\ input = Ref(1)
    /\ Len(entries) = 2
    /\ entries[1] = [key |-> <<"a">>, val |-> Str(<<"m">>)]
    /\ entries[2] = [key |-> <<"b">>, val |-> Str(<<"x">>)]
    /\ OwnKeys(heap, out[1].a) = {<<"b">>}

\* the container a target path addresses: the segments before the last one
ContainerOf(p) == SubSeq(SplitDot(p), 1, Len(SplitDot(p)) - 1)

\* the field a target path addresses in its container
FieldName(p) ==
    LET seg == SplitDot(p)[Len(SplitDot(p))]
    IN IF EndsWith(seg, <<"[", "]">>) THEN SubSeq(seg, 1, Len(seg) - 2) ELSE seg

\* the value the path of segments segs leads to from v, by own keys only
RECURSIVE Follow(_, _, _)
Follow(h, v, segs) ==
    IF Len(segs) = 0 THEN v
    ELSE IF v.t # "ref" THEN Undef
    ELSE Follow(h, GetProp(h, v, Head(segs)), Tail(segs))

\* what the output record holds in the field the target path p addresses
FieldValue(h, p) == Deep(h, Follow(h, Ref(result), ContainerOf(p) \o <<FieldName(p)>>))

\* C7: an entry leaves every field as it is that an earlier entry of the same
\* record addressed in the same container under another name.
C7_WritesAdditive ==
    [][(pc = "entry" /\ ent' = ent + 1) =>
        \A j \in 1..(ent - 1) :
            (/\ ContainerOf(entries[j].key) = ContainerOf(entries[ent].key)
             /\ FieldName(entries[j].key) # FieldName(entries[ent].key))
                => FieldValue(heap', entries[j].key) = FieldValue(heap, entries[j].key)]_vars

\* the names the registry defines (main.js lines 135-162)
Registered == {CountryFromISOName}

\* the entry value e is a transform directive
IsDirective(h, e) == IsPlainObject(h, e) /\ HasOwn(h, e, TransformKey)

\* the directive e names an unregistered function, or its function raises
\* when it is invoked for the record inp
Failing(h, inp, e) ==
    /\ IsDirective(h, e)
    /\ \/ GetProp(h, e, TransformKey).t # "string"
       \/ GetProp(h, e, TransformKey).s \notin Registered
       \/ Invoke(DirectiveArgs(h, inp, e).h, LookupTransform(GetProp(h, e, TransformKey)),
                 DirectiveArgs(h, inp, e).args).raised

\* the entries es without the failing ones
RECURSIVE WithoutFailing(_, _, _)
WithoutFailing(h, inp, es) ==
    IF Len(es) = 0 THEN <<>>
    ELSE (IF Failing(h, inp, Head(es).val) THEN <<>> ELSE <<Head(es)>>)
            \o WithoutFailing(h, inp, Tail(es))

\* the result of transformOne for the one record, the failing entries removed
Removed == TransformOne(heap0, input, WithoutFailing(heap0, input, EntriesOf(heap0, mapping)))

\* C10: for one record, the output of a mapping equals the output of the
\* same mapping with the directives removed that name an unregistered
\* function or whose function raises.
C10_FailingEntrySkipped ==
    (Returned /\ ~IsArray(heap0, input)) =>
        Deep(heap, ret) = Deep(Removed.h, Removed.v)

---------------------------------------------------------------------------
(* Claims about transforms.countryFromISO *)

\* the code as countryFromISO looks it up
Normalized(h, c) == ToUpperCase(Trim(ToJSString(h, c)))

\* neither the region-name lookup nor the fallback table has a name for c
NoNameFor(h, c) ==
    /\ IntlRegionName(Normalized(h, c)) \in {Undef, Str(<<>>), Str(Normalized(h, c))}
    /\ \A i \in 1..Len(FallbackCodes) : FallbackCodes[i] # Normalized(h, c)

\* C11: countryFromISO returns undefined for a null or empty-string argument
\* and for no other; for a non-empty code that neither the region-name lookup
\* nor the fallback table resolves, it returns the code string itself,
\* unchanged.
C11_UnknownCodeUnchanged ==
    pc = "country" =>
        /\ ret = Undef <=> value \in {Null, Str(<<>>)}
        /\ (value.t = "string" /\ value # Str(<<>>) /\ NoNameFor(heap, value)) => ret = value

---------------------------------------------------------------------------
(* Claims about what an entry reads *)

\* what the entry value e resolves to against the first record, as the
\* record was when transform was called
ResolvedAtCall(e) == Deep(ResolveSpec(heap0, items[1], e).h, ResolveSpec(heap0, items[1], e).v)

\* what the entry value e resolves to against the first record now
ResolvedNow(e) == Deep(ResolveSpec(heap, items[1], e).h, ResolveSpec(heap, items[1], e).v)

\* an entry of the first record is processed that is not a transform directive
PlainEntryOfFirstRecord ==
    /\ pc = "entry"
    /\ ent' = ent + 1
    /\ rec = 1
    /\ ~IsDirective(heap, entries[ent].val)

\* C12: in the first record of a call, what an entry reads is what it
\* resolves to against the record as it was before the record was processed,
\* and that is the value its target field holds once the entry is processed
\* (for a target path that does not end in "[]").
C12_ReadsOriginalRecord ==
    [][PlainEntryOfFirstRecord =>
        /\ ResolvedNow(entries[ent].val) = ResolvedAtCall(entries[ent].val)
        /\ ~EndsWith(entries[ent].key, <<"[", "]">>)
              => FieldValue(heap', entries[ent].key) = ResolvedAtCall(entries[ent].val)]_vars

---------------------------------------------------------------------------
(* Claims about the shape of the output *)

\* undefined is the value of a key or an element of an array somewhere in v
HoldsUndefined(h, v) ==
    \/ v = Undef
    \/ \E a \in Reach(h, v) :
        \/ \E i \in 1..Len(h[a].vals) : h[a].vals[i] = Undef
        \/ \E i \in 1..Len(h[a].elems) : h[a].elems[i] = Undef

\* C13: undefined occurs nowhere in the value transform returns, neither as
\* the value of a key nor as an element of an array.
C13_OutputIsJSON == pc = "done" => ~HoldsUndefined(heap, ret)

---------------------------------------------------------------------------
(* Claims about array flow *)

\* the sequences of ss, one after the other
RECURSIVE Flatten(_)
Flatten(ss) == IF Len(ss) = 0 THEN <<>> ELSE Head(ss) \o Flatten(Tail(ss))

NotNullish(v) == ~IsNullish(v)

\* what a non-null element e contributes for the segment seg
Members(h, e, seg) ==
    LET kv == GetProp(h, e, ParseSeg(seg).key)
    IN CASE ParseSeg(seg).mode = "prop" -> <<kv>>
         [] ParseSeg(seg).mode = "index" ->
                IF IsArray(h, kv) THEN <<ElemAt(h, kv, ParseSeg(seg).index)>> ELSE <<Undef>>
         [] ParseSeg(seg).mode = "wildcard" ->
                IF IsArray(h, kv) THEN h[kv.a].elems
                ELSE IF IsNullish(kv) THEN <<>>
                ELSE <<kv>>

\* the sequence after the segments segs from segment i on, from the sequence S:
\* the null elements dropped, each other element's members in order
RECURSIVE Flow(_, _, _, _)
Flow(h, S, segs, i) ==
    IF i > Len(segs) THEN S
    ELSE Flow(h,
              Flatten([j \in 1..Len(SelectSeq(S, NotNullish)) |->
                          Members(h, SelectSeq(S, NotNullish)[j], segs[i])]),
              segs, i + 1)

\* the position of the first wildcard segment of segs, 0 when there is none
FirstWildcard(segs) ==
    IF \E i \in 1..Len(segs) : ParseSeg(segs[i]).mode = "wildcard"
    THEN CHOOSE i \in 1..Len(segs) :
            /\ ParseSeg(segs[i]).mode = "wildcard"
            /\ \A j \in 1..(i - 1) : ParseSeg(segs[j]).mode # "wildcard"
    ELSE 0

\* the value the segments before the first wildcard lead to, read in scalar state
BeforeWildcard(h, root, segs) ==
    IF FirstWildcard(segs) = 1 THEN root
    ELSE GetValueByPath(h, root, Str(JoinDot(SubSeq(segs, 1, FirstWildcard(segs) - 1)))).v

\* a read has been made whose path enters array flow on a value that is
\* neither null nor undefined
EntersFlow ==
    /\ pc = "flowread"
    /\ FirstWildcard(SplitDot(path.s)) > 0
    /\ NotNullish(BeforeWildcard(ApiHeap, value, SplitDot(path.s)))

\* C14: the wildcard that enters array flow yields the members of an array
\* key value, the value itself when it is neither null nor an array, and
\* nothing otherwise; every later segment drops the null elements and maps
\* the others in order: one entry per element for a Plain or an Index segment
\* (undefined for an Index segment on a key value that is no array), and for
\* a Wildcard segment the members of the key value, flattened one level.
C14_ArrayFlow ==
    EntersFlow =>
        LET segs == SplitDot(path.s)
            w == FirstWildcard(segs)
        IN /\ IsArray(heap, ret)
           /\ heap[ret.a].elems =
                Flow(ApiHeap, Members(ApiHeap, BeforeWildcard(ApiHeap, value, segs), segs[w]),
                     segs, w + 1)

\* a[].a[] read from {a: [{a: [1]}, null, {a: "s"}]}: the null element
\* dropped, the array flattened, the string kept
C14_Witness ==
    /\ EntersFlow
    /\ value = Ref(4)
    /\ path = Str(<<"a", "[", "]", ".", "a", "[", "]">>)
    /\ heap[ret.a].elems = <<Num(1), Str(<<"s">>)>>

====
